---- MODULE Spec2Model ----
(***************************************************************************)
(* Talent Sift (lite): the submission view (App.jsx) and the results view  *)
(* (ResumeList).  Strings that the code inspects character by character    *)
(* (trim, includes, split, toLowerCase) are sequences of one-character     *)
(* strings; opaque strings are TLA+ strings.                               *)
(***************************************************************************)
EXTENDS Integers, Sequences, FiniteSets, TLC

(* ---------------- bounds of the model ---------------- *)
MaxSubmits == 2
MaxToasts == 1
MaxCandidates == 2

(* ---------------- program constants ---------------- *)
OrgIdDefault == 1
ScoreMin == 1
ScoreMax == 10
ExperienceMin == 0
ExperienceMax == 35

(* ---------------- strings ---------------- *)
RECURSIVE TrimStart(_)
TrimStart(s) ==
  IF s # <<>> /\ Head(s) = " " THEN TrimStart(Tail(s)) ELSE s

RECURSIVE TrimEnd(_)
TrimEnd(s) ==
  IF s # <<>> /\ s[Len(s)] = " " THEN TrimEnd(SubSeq(s, 1, Len(s) - 1)) ELSE s

Trim(s) == TrimEnd(TrimStart(s))

LowerChar(c) ==
  CASE c = "A" -> "a"
    [] c = "B" -> "b"
    [] c = "C" -> "c"
    [] c = "N" -> "n"
    [] OTHER -> c

ToLowerCase(s) == [i \in 1..Len(s) |-> LowerChar(s[i])]

Includes(s, q) ==
  \E i \in 0..(Len(s) - Len(q)) : SubSeq(s, i + 1, i + Len(q)) = q

RECURSIVE Split(_)
Split(s) ==
  IF \A i \in 1..Len(s) : s[i] # ","
  THEN <<s>>
  ELSE LET k == CHOOSE i \in 1..Len(s) :
                  s[i] = "," /\ \A j \in 1..(i - 1) : s[j] # ","
       IN <<SubSeq(s, 1, k - 1)>> \o Split(SubSeq(s, k + 1, Len(s)))

RECURSIVE Concat(_)
Concat(ss) == IF ss = <<>> THEN <<>> ELSE Head(ss) \o Concat(Tail(ss))

(* ---------------- JSON values and localStorage ---------------- *)
JAbsent == [t |-> "absent", s |-> <<>>, n |-> 0]
JStr(x) == [t |-> "str", s |-> x, n |-> 0]
JNum(k) == [t |-> "num", s |-> <<>>, n |-> k]

Truthy(v) == (v.t = "str" /\ v.s # <<>>) \/ (v.t = "num" /\ v.n # 0)

Or(v, d) == IF Truthy(v) THEN v ELSE d

Null == [t |-> "null"]
JArr(xs) == [t |-> "arr", items |-> xs]
JObj(i, e, r) == [t |-> "obj", id |-> i, exe_name |-> e, result |-> r]

Stringify(v) == [json |-> v]
Parse(s) == s.json


(* ---------------- App.jsx: the submission view ---------------- *)
VARIABLES
  formData,      \* App: useState form record
  appPhase,      \* App: "opened" / "returned" (constructed, before the URL effect;
                 \* opened by any URL / reached by navigate("/")), "ready", "unmounted"
  route,         \* the router's current path
  localStorage,  \* the two keys the program writes
  requests,      \* the requests in flight, each with the closure handleSubmit resumes in
  toasts,        \* the toasts on screen, in the order they were shown
  lastOk,        \* history: the closure and response of the last submission that stored
  viewPhase,     \* ResumeList: "unmounted", "constructed" (before the load effect), "loaded"
  resumes, userKeySkills, caseId,
  searchQuery, scoreRange, experienceRange, filterEmail, filterPhone,
  filteredResumes \* the useMemo cell

appVars == <<formData, appPhase>>
filterVars == <<searchQuery, scoreRange, experienceRange, filterEmail, filterPhone>>
viewVars == <<viewPhase, resumes, userKeySkills, caseId, filterVars, filteredResumes>>
vars == <<appVars, route, localStorage, requests, toasts, lastOk, viewVars>>

InitialFormData ==
  [jobTitle |-> "", yearsOfExperience |-> "", jobType |-> "", industry |-> "",
   requiredSkills |-> <<>>, jobDescription |-> <<>>, resumeFiles |-> <<>>,
   source |-> ""]

(* URL parameters: params.get(k) is null when the parameter is missing; a value
   holding a malformed escape makes decodeURIComponent throw. *)
Param(v) == [present |-> TRUE, malformed |-> FALSE, val |-> v]
BadParam(v) == [present |-> TRUE, malformed |-> TRUE, val |-> v]
NoParam(e) == [present |-> FALSE, malformed |-> FALSE, val |-> e]

GetOr(p, e) == IF p.present THEN p ELSE Param(e)

decodeSafe(p, e) == IF p.malformed THEN e ELSE p.val

FullTimeLabel == <<"F", "u", "l", "l", " ", "t", "i", "m", "e">>
PartTimeLabel == <<"P", "a", "r", "t", " ", "t", "i", "m", "e">>
ContractLabel == <<"C", "o", "n", "t", "r", "a", "c", "t">>
FreelanceLabel == <<"F", "r", "e", "e", "l", "a", "n", "c", "e">>
InternshipLabel == <<"I", "n", "t", "e", "r", "n", "s", "h", "i", "p">>

JobTypes == {"fulltime", "parttime", "contract", "freelance", "internship"}

(* Names every object literal inherits from Object.prototype: jobTypeMap[k] finds
   them although they are no keys of the literal. *)
ObjectPrototypeKeys == {<<"c", "o", "n", "s", "t", "r", "u", "c", "t", "o", "r">>, <<"t", "o", "S", "t", "r", "i", "n", "g">>}

NativeFunction == "function () { [native code] }"

jobTypeMap(label) ==
  CASE label = FullTimeLabel -> "fulltime"
    [] label = PartTimeLabel -> "parttime"
    [] label = ContractLabel -> "contract"
    [] label = FreelanceLabel -> "freelance"
    [] label = InternshipLabel -> "internship"
    [] label \in ObjectPrototypeKeys -> NativeFunction
    [] OTHER -> ""

mappedJobType(q) == jobTypeMap(Trim(decodeSafe(GetOr(q.jobtype, <<>>), <<>>)))

PrefilledFormData(prev, q) ==
  [prev EXCEPT
     !.requiredSkills = decodeSafe(GetOr(q.skills, <<>>), <<>>),
     !.jobDescription = decodeSafe(GetOr(q.job, <<>>), <<>>),
     !.yearsOfExperience = decodeSafe(GetOr(q.yoe, ""), ""),
     !.jobTitle = decodeSafe(GetOr(q.jobtitle, ""), ""),
     !.jobType = mappedJobType(q),
     !.source = decodeSafe(GetOr(q.source, ""), "")]

(* HTML: a rich-text description is a sequence of nodes, each an element (or a
   bare text node, tag "text") with its text content. *)
Node(tag, text) == [tag |-> tag, text |-> text]

BlockTags == {"p", "div", "br", "li"}

NodeTextContent(n) ==
  n.text \o (IF n.tag \in BlockTags THEN <<" ">> ELSE <<>>)

stripHtml(html) ==
  Trim(Concat([i \in 1..Len(html) |-> NodeTextContent(html[i])]))

NoDescription == <<"N", "o", " ", "d", "e", "s", "c", "r", "i", "p", "t", "i", "o", "n">>

(* a payload without the "No description" fallback *)
JobDescriptionFieldNoFallback(html) == stripHtml(html)

JobDescriptionField(html) ==
  IF stripHtml(html) # <<>> THEN stripHtml(html) ELSE NoDescription

jobPayload(fd) ==
  [org_id |-> OrgIdDefault,
   exe_name |-> fd.requiredSkills,
   workflow_id |-> "resume_ranker",
   job_description |-> JobDescriptionField(fd.jobDescription),
   source |-> fd.source]

(* a validation that forgets the description *)
MissingInformationNoDescription(fd) ==
  fd.jobTitle = "" \/ fd.jobType = ""

MissingInformation(fd) ==
  fd.jobTitle = "" \/ fd.jobType = "" \/ fd.jobDescription = <<>>

MissingResume(fd) == Len(fd.resumeFiles) = 0

Toast(title, variant) == [title |-> title, variant |-> variant]


(* ---------------- ResumeList: the results view ---------------- *)
Xxx == <<"x", "x", "x">>
NoEmail == <<"N", "o", " ", "e", "m", "a", "i", "l">>
NoPhone == <<"N", "o", " ", "p", "h", "o", "n", "e">>
DigitChar(k) == <<"1", "2", "3", "4", "5", "6", "7", "8", "9">>[k]
CandidateName(k) == <<"C", "a", "n", "d", "i", "d", "a", "t", "e", " ">> \o <<DigitChar(k)>>

InitialScoreRange == <<ScoreMin, ScoreMax>>
InitialExperienceRange == <<ExperienceMin, ExperienceMax>>

(* a mapping with item.experience || 0 *)
MapItemExperienceOr(parsedResumes, item, index) ==
  [orgId |-> parsedResumes.id,
   exeName |-> parsedResumes.exe_name,
   candidateId |-> index + 1,
   name |-> Or(item.name, JStr(CandidateName(index + 1))),
   Rank |-> Or(item.score, JNum(0)),
   justification |-> Or(item.justification, JStr(<<>>)),
   experience |-> Or(item.experience, JNum(0)),
   email |-> IF item.email = JStr(Xxx) \/ ~Truthy(item.email)
             THEN JStr(NoEmail) ELSE item.email,
   phone |-> IF item.phone = JStr(Xxx) \/ ~Truthy(item.phone)
             THEN JStr(NoPhone) ELSE item.phone]

(* lines 39-52; index is the 0-based index of Array.prototype.map *)
MapItem(parsedResumes, item, index) ==
  [orgId |-> parsedResumes.id,
   exeName |-> parsedResumes.exe_name,
   candidateId |-> index + 1,
   name |-> Or(item.name, JStr(CandidateName(index + 1))),
   Rank |-> Or(item.score, JNum(0)),
   justification |-> Or(item.justification, JStr(<<>>)),
   experience |-> IF item.experience.t = "num" THEN item.experience ELSE JNum(0),
   email |-> IF item.email = JStr(Xxx) \/ ~Truthy(item.email)
             THEN JStr(NoEmail) ELSE item.email,
   phone |-> IF item.phone = JStr(Xxx) \/ ~Truthy(item.phone)
             THEN JStr(NoPhone) ELSE item.phone]

(* Array.isArray(parsedResumes.result): an array has no property "result" *)
HasResultArray(parsedResumes) ==
  /\ parsedResumes.t = "obj"
  /\ parsedResumes.result.t = "arr"

MappedResumes(parsedResumes) ==
  [i \in 1..Len(parsedResumes.result.items) |->
     MapItem(parsedResumes, parsedResumes.result.items[i], i - 1)]

(* Number(resume.Rank) || 0 *)
RankNumber(resume) == IF resume.Rank.t = "num" THEN resume.Rank.n ELSE 0

matchesSearch(resume, query) ==
  \/ Includes(ToLowerCase(resume.name.s), query)
  \/ (Truthy(resume.email) /\ Includes(ToLowerCase(resume.email.s), query))
  \/ (Truthy(resume.justification)
        /\ Includes(ToLowerCase(resume.justification.s), query))

inScoreRange(resume, range) ==
  RankNumber(resume) >= range[1] /\ RankNumber(resume) <= range[2]

inExperienceRange(resume, range) ==
  resume.experience.n >= range[1] /\ resume.experience.n <= range[2]

hasEmail(resume, on) ==
  IF on THEN Truthy(resume.email) /\ resume.email # JStr(NoEmail) ELSE TRUE

hasPhone(resume, on) ==
  IF on THEN Truthy(resume.phone) /\ resume.phone # JStr(NoPhone) ELSE TRUE

RECURSIVE FilterSeq(_, _, _, _, _, _)
FilterSeq(rs, query, sr, er, fe, fp) ==
  IF rs = <<>> THEN <<>>
  ELSE (IF /\ matchesSearch(Head(rs), query)
           /\ inScoreRange(Head(rs), sr)
           /\ inExperienceRange(Head(rs), er)
           /\ hasEmail(Head(rs), fe)
           /\ hasPhone(Head(rs), fp)
        THEN <<Head(rs)>> ELSE <<>>)
       \o FilterSeq(Tail(rs), query, sr, er, fe, fp)

(* the body of the useMemo callback, lines 64-90 *)
ComputeFiltered(rs, sq, sr, er, fe, fp) ==
  FilterSeq(rs, Trim(ToLowerCase(sq)), sr, er, fe, fp)

ViewConstructed ==
  /\ resumes = <<>>
  /\ userKeySkills = <<>>
  /\ caseId = 0
  /\ searchQuery = <<>>
  /\ scoreRange = InitialScoreRange
  /\ experienceRange = InitialExperienceRange
  /\ filterEmail = FALSE
  /\ filterPhone = FALSE
  /\ filteredResumes = <<>>

ViewConstructedNext ==
  /\ resumes' = <<>>
  /\ userKeySkills' = <<>>
  /\ caseId' = 0
  /\ searchQuery' = <<>>
  /\ scoreRange' = InitialScoreRange
  /\ experienceRange' = InitialExperienceRange
  /\ filterEmail' = FALSE
  /\ filterPhone' = FALSE
  /\ filteredResumes' = <<>>


(* ---------------- inputs ---------------- *)
HtmlMarkupOnly == <<Node("p", <<>>), Node("br", <<>>)>>
HtmlRich == <<Node("p", <<" ", "a">>), Node("b", <<"b">>)>>
Htmls == {<<>>, HtmlMarkupOnly, HtmlRich}

SkillsAB == <<"a", ",", "b">>
SkillStrings == {<<>>, SkillsAB}
FileLists == {<<>>, <<"cv.pdf">>}

ConstructorLabel == <<"c", "o", "n", "s", "t", "r", "u", "c", "t", "o", "r">>

JobTypeParams ==
  {NoParam(<<>>),
   Param(FullTimeLabel),
   Param(<<" ">> \o PartTimeLabel \o <<" ">>),
   Param(ToLowerCase(FullTimeLabel)),
   BadParam(ContractLabel),
   Param(ConstructorLabel)}

NoQuery ==
  [jobtype |-> NoParam(<<>>), skills |-> NoParam(<<>>), job |-> NoParam(<<>>),
   yoe |-> NoParam(""), jobtitle |-> NoParam(""), source |-> NoParam("")]

FullQuery ==
  [jobtype |-> Param(FullTimeLabel), skills |-> Param(SkillsAB),
   job |-> Param(HtmlRich), yoe |-> NoParam(""), jobtitle |-> Param("Dev"),
   source |-> NoParam("")]

Queries ==
  {[q EXCEPT !.jobtype = jt] : q \in {NoQuery, FullQuery}, jt \in JobTypeParams}
  \cup {[FullQuery EXCEPT !.jobtitle = BadParam("Dev")]}

Item(n, sc, j, e, em, ph) ==
  [name |-> n, score |-> sc, justification |-> j, experience |-> e,
   email |-> em, phone |-> ph]

ItemFull ==
  Item(JStr(<<"A", "n">>), JNum(7), JStr(<<"o", "k">>), JNum(3),
       JStr(<<"a", "@", "b">>), JStr(<<"5", "5">>))
ItemBare == Item(JAbsent, JAbsent, JAbsent, JAbsent, JAbsent, JAbsent)

(* response bodies: result.data?.result is read from them *)
ResultAbsent == [t |-> "absent"]
DataAbsent == [t |-> "absent", result |-> ResultAbsent]
Data(r) == [t |-> "obj", result |-> r]
BodyNull == [t |-> "null", data |-> DataAbsent]
Body(d) == [t |-> "obj", data |-> d]

Bodies ==
  {BodyNull,
   Body(DataAbsent),
   Body(Data(JArr(<<ItemFull, ItemBare>>))),
   Body(Data(JObj(7, "run", JArr(<<ItemBare, ItemFull>>))))}

Response(kind, ok, body) == [kind |-> kind, ok |-> ok, body |-> body]

Responses ==
  {Response("rejected", FALSE, BodyNull), Response("notjson", TRUE, BodyNull)}
  \cup {Response("json", FALSE, b) : b \in {BodyNull, Body(DataAbsent)}}
  \cup {Response("json", TRUE, b) : b \in Bodies}

NoneYet == [skills |-> <<>>, body |-> BodyNull]

(* ---------------- App.jsx: actions ---------------- *)
AppMounted == appPhase = "ready" /\ route = "/"

(* lines 27-57; navigate("/") leads to a URL without a query *)
UrlParamsEffect(q) ==
  /\ appPhase \in {"opened", "returned"}
  /\ appPhase = "returned" => q = NoQuery
  /\ formData' = PrefilledFormData(formData, q)
  /\ appPhase' = "ready"
  /\ UNCHANGED <<route, localStorage, requests, toasts, lastOk, viewVars>>

(* lines 59-61 *)
handleInputChange(field, value) ==
  /\ AppMounted
  /\ formData' = [formData EXCEPT ![field] = value]
  /\ formData' # formData
  /\ UNCHANGED <<appPhase, route, localStorage, requests, toasts, lastOk, viewVars>>

MissingInformationToast == Toast("Missing Information", "destructive")
MissingResumeToast == Toast("Missing Resume", "destructive")
SubmissionErrorToast == Toast("Submission Error", "destructive")
SuccessToast == Toast("Success", "default")

(* lines 77-84 *)
SubmitMissingInformation ==
  /\ AppMounted
  /\ Len(toasts) < MaxToasts
  /\ MissingInformation(formData)
  /\ toasts' = Append(toasts, MissingInformationToast)
  /\ UNCHANGED <<appVars, route, localStorage, requests, lastOk, viewVars>>

(* lines 86-93 *)
SubmitMissingResume ==
  /\ AppMounted
  /\ Len(toasts) < MaxToasts
  /\ ~MissingInformation(formData)
  /\ MissingResume(formData)
  /\ toasts' = Append(toasts, MissingResumeToast)
  /\ UNCHANGED <<appVars, route, localStorage, requests, lastOk, viewVars>>

(* lines 95-117: the request leaves and handleSubmit is suspended at the await;
   of the closure over this render's formData only requiredSkills is read later *)
NewRequest(fd) ==
  [payload |-> jobPayload(fd), resumes |-> fd.resumeFiles,
   closure |-> [requiredSkills |-> fd.requiredSkills]]

SubmitSend ==
  /\ AppMounted
  /\ Len(requests) < MaxSubmits
  /\ ~MissingInformation(formData)
  /\ ~MissingResume(formData)
  /\ requests' = Append(requests, NewRequest(formData))
  /\ UNCHANGED <<appVars, route, localStorage, toasts, lastOk, viewVars>>

handleSubmit == SubmitMissingInformation \/ SubmitMissingResume \/ SubmitSend

(* a handler without the response.ok test *)
ThrowsIgnoringStatus(resp) ==
  \/ resp.kind = "rejected"
  \/ resp.kind = "notjson"
  \/ resp.body.t = "null"

(* lines 114-128: what makes the try block throw once the fetch settles *)
Throws(resp) ==
  \/ resp.kind = "rejected"
  \/ resp.kind = "notjson"
  \/ ~resp.ok
  \/ resp.body.t = "null"

(* a handler that stores data.result only when it is an array *)
StoredResultArrayOnly(body) ==
  IF body.data.t = "absent" \/ body.data.result.t # "arr"
  THEN JArr(<<>>)
  ELSE body.data.result

(* line 131: result.data?.result || [] *)
StoredResult(body) ==
  IF body.data.t = "absent" \/ body.data.result.t = "absent"
  THEN JArr(<<>>)
  ELSE body.data.result

(* a handler that reads the current form state instead of its closure *)
StoredKeySkillsLive(closure) == Split(formData.requiredSkills)

(* line 132 *)
StoredKeySkills(closure) == Split(closure.requiredSkills)

RemoveAt(seq, i) == SubSeq(seq, 1, i - 1) \o SubSeq(seq, i + 1, Len(seq))

(* lines 143-150 *)
CompleteError(i, resp) ==
  /\ Len(toasts) < MaxToasts
  /\ Throws(resp)
  /\ requests' = RemoveAt(requests, i)
  /\ toasts' = Append(toasts, SubmissionErrorToast)
  /\ UNCHANGED <<appVars, route, localStorage, lastOk, viewVars>>

(* lines 130-141; a navigation to the route already shown mounts nothing *)
CompleteSuccess(i, resp) ==
  /\ Len(toasts) < MaxToasts
  /\ ~Throws(resp)
  /\ requests' = RemoveAt(requests, i)
  /\ localStorage' =
       [resumeResults |-> Stringify(StoredResult(resp.body)),
        keySkills |-> Stringify(StoredKeySkills(requests[i].closure))]
  /\ lastOk' = [skills |-> requests[i].closure.requiredSkills, body |-> resp.body]
  /\ route' = "/resumes"
  /\ toasts' = Append(toasts, SuccessToast)
  /\ IF route = "/resumes"
     THEN UNCHANGED <<appVars, viewVars>>
     ELSE /\ formData' = InitialFormData
          /\ appPhase' = "unmounted"
          /\ viewPhase' = "constructed"
          /\ ViewConstructedNext

Complete(i, resp) == CompleteError(i, resp) \/ CompleteSuccess(i, resp)

(* line 198: the Toaster takes the oldest toast off the screen *)
DismissToast ==
  /\ toasts # <<>>
  /\ toasts' = Tail(toasts)
  /\ UNCHANGED <<appVars, route, localStorage, requests, lastOk, viewVars>>

(* ---------------- ResumeList: actions ---------------- *)
ParsedOrNull(stored) == IF stored = Null THEN Null ELSE Parse(stored)

(* lines 29-60 *)
LoadEffect ==
  /\ viewPhase = "constructed"
  /\ viewPhase' = "loaded"
  /\ LET parsedSkills == IF localStorage.keySkills = Null
                         THEN <<>> ELSE Parse(localStorage.keySkills)
         parsedResumes == ParsedOrNull(localStorage.resumeResults)
     IN /\ userKeySkills' = parsedSkills
        /\ IF parsedResumes # Null /\ HasResultArray(parsedResumes)
           THEN /\ resumes' = MappedResumes(parsedResumes)
                /\ caseId' = parsedResumes.id
           ELSE UNCHANGED <<resumes, caseId>>
  /\ filteredResumes' =
       ComputeFiltered(resumes', searchQuery, scoreRange, experienceRange,
                       filterEmail, filterPhone)
  /\ UNCHANGED <<appVars, route, localStorage, requests, toasts, lastOk, filterVars>>

(* line 229: the Home button *)
Home ==
  /\ route = "/resumes"
  /\ route' = "/"
  /\ viewPhase' = "unmounted"
  /\ ViewConstructedNext
  /\ formData' = InitialFormData
  /\ appPhase' = "returned"
  /\ UNCHANGED <<localStorage, requests, toasts, lastOk>>

(* ---------------- the submission flow: form, requests, results view ---------------- *)
Init ==
  /\ formData = InitialFormData
  /\ appPhase = "opened"
  /\ route = "/"
  /\ localStorage = [resumeResults |-> Null, keySkills |-> Null]
  /\ requests = <<>>
  /\ toasts = <<>>
  /\ lastOk = NoneYet
  /\ viewPhase = "unmounted"
  /\ ViewConstructed

UrlEffect == \E q \in Queries : UrlParamsEffect(q)

InputChange ==
  \/ \E v \in {"", "Dev"} : handleInputChange("jobTitle", v)
  \/ \E v \in {"parttime"} : handleInputChange("jobType", v)
  \/ \E v \in Htmls : handleInputChange("jobDescription", v)
  \/ \E v \in SkillStrings : handleInputChange("requiredSkills", v)
  \/ \E v \in FileLists : handleInputChange("resumeFiles", v)

Settle ==
  \E i \in 1..Len(requests), resp \in Responses : Complete(i, resp)

Next ==
  \/ UrlEffect
  \/ InputChange
  \/ SubmitMissingInformation
  \/ SubmitMissingResume
  \/ SubmitSend
  \/ Settle
  \/ DismissToast
  \/ LoadEffect
  \/ Home

Spec == Init /\ [][Next]_vars

(* ---------------- the results view on its own ---------------- *)
ItemBob ==
  Item(JStr(<<"B", "o">>), JNum(2), JStr(<<"n", "o">>), JNum(12),
       JStr(<<"b", "@", "c">>), JStr(<<"7">>))

ViewItems ==
  {ItemFull, ItemBob, ItemBare,
   [ItemFull EXCEPT !.name = JStr(<<>>)],
   [ItemFull EXCEPT !.score = JAbsent],
   [ItemFull EXCEPT !.score = JNum(0)],
   [ItemFull EXCEPT !.experience = JStr(<<"5">>)],
   [ItemFull EXCEPT !.email = JStr(Xxx)],
   [ItemFull EXCEPT !.email = JStr(<<>>)],
   [ItemFull EXCEPT !.phone = JStr(Xxx)]}

ItemLists == UNION {[1..k -> ViewItems] : k \in 0..MaxCandidates}

CachedResults ==
  {Null, Stringify(JArr(<<ItemFull>>)), Stringify(JObj(7, "run", ResultAbsent))}
  \cup {Stringify(JObj(7, "run", JArr(items))) : items \in ItemLists}

ScoreRanges == {<<ScoreMin, ScoreMax>>, <<ScoreMin, 5>>, <<8, ScoreMax>>}
ExperienceRanges ==
  {<<ExperienceMin, ExperienceMax>>, <<ExperienceMin, 2>>, <<5, ExperienceMax>>}
SearchQueries == {<<>>, <<" ", "B", "o">>}

ViewLoaded == viewPhase = "loaded" /\ route = "/resumes"

(* useMemo, lines 63-91: the callback runs again on a render in which one of
   scoreRange, experienceRange, filterEmail, filterPhone, resumes has changed;
   a setter called with a new array always changes its state *)
Memo(depsChanged) ==
  filteredResumes' =
    IF depsChanged
    THEN ComputeFiltered(resumes', searchQuery', scoreRange', experienceRange',
                         filterEmail', filterPhone')
    ELSE filteredResumes

(* line 144 *)
SetScoreRange ==
  /\ ViewLoaded
  /\ \E values \in ScoreRanges : scoreRange' = values
  /\ UNCHANGED <<resumes, searchQuery, experienceRange, filterEmail, filterPhone>>
  /\ Memo(TRUE)
  /\ UNCHANGED <<appVars, route, localStorage, requests, toasts, lastOk,
                 viewPhase, userKeySkills, caseId>>

(* line 177 *)
SetExperienceRange ==
  /\ ViewLoaded
  /\ \E values \in ExperienceRanges : experienceRange' = values
  /\ UNCHANGED <<resumes, searchQuery, scoreRange, filterEmail, filterPhone>>
  /\ Memo(TRUE)
  /\ UNCHANGED <<appVars, route, localStorage, requests, toasts, lastOk,
                 viewPhase, userKeySkills, caseId>>

(* line 203 *)
ToggleFilterEmail ==
  /\ ViewLoaded
  /\ filterEmail' = ~filterEmail
  /\ UNCHANGED <<resumes, searchQuery, scoreRange, experienceRange, filterPhone>>
  /\ Memo(filterEmail' # filterEmail)
  /\ UNCHANGED <<appVars, route, localStorage, requests, toasts, lastOk,
                 viewPhase, userKeySkills, caseId>>

(* line 212 *)
ToggleFilterPhone ==
  /\ ViewLoaded
  /\ filterPhone' = ~filterPhone
  /\ UNCHANGED <<resumes, searchQuery, scoreRange, experienceRange, filterEmail>>
  /\ Memo(filterPhone' # filterPhone)
  /\ UNCHANGED <<appVars, route, localStorage, requests, toasts, lastOk,
                 viewPhase, userKeySkills, caseId>>

(* line 15: the setter of the search query; searchQuery is no dependency of
   the memo (line 91) *)
SetSearchQuery ==
  /\ ViewLoaded
  /\ \E q \in SearchQueries : searchQuery' = q
  /\ searchQuery' # searchQuery
  /\ UNCHANGED <<resumes, scoreRange, experienceRange, filterEmail, filterPhone>>
  /\ Memo(FALSE)
  /\ UNCHANGED <<appVars, route, localStorage, requests, toasts, lastOk,
                 viewPhase, userKeySkills, caseId>>

InitView ==
  /\ formData = InitialFormData
  /\ appPhase = "unmounted"
  /\ route = "/resumes"
  /\ localStorage \in
       [resumeResults : CachedResults,
        keySkills : {Null, Stringify(Split(SkillsAB))}]
  /\ requests = <<>>
  /\ toasts = <<>>
  /\ lastOk = NoneYet
  /\ viewPhase = "constructed"
  /\ ViewConstructed

NextView ==
  \/ LoadEffect
  \/ SetScoreRange
  \/ SetExperienceRange
  \/ ToggleFilterEmail
  \/ ToggleFilterPhone
  \/ SetSearchQuery

SpecView == InitView /\ [][NextView]_vars

(* ================= the claims ================= *)

(* C1: whenever handleSubmit runs with jobTitle, jobType or jobDescription
   empty, or with no resume file, no request is sent, localStorage and the
   route are left as they were, and one destructive toast is shown. *)
C1_ValidationRejects ==
  [][(/\ handleSubmit
      /\ \/ formData.jobTitle = ""
         \/ formData.jobType = ""
         \/ formData.jobDescription = <<>>
         \/ formData.resumeFiles = <<>>)
     => /\ requests' = requests
        /\ localStorage' = localStorage
        /\ route' = route
        /\ Len(toasts') = Len(toasts) + 1
        /\ toasts'[Len(toasts')].variant = "destructive"]_vars

C1_Witness ==
  /\ route = "/"
  /\ requests = <<>>
  /\ toasts = <<MissingResumeToast>>
  /\ formData.jobTitle # "" /\ formData.jobType # ""
  /\ formData.jobDescription # <<>> /\ formData.resumeFiles = <<>>

(* C2: the step of a submission that changes the route to /resumes has
   already written resumeResults (data.result of that submission's response, or
   the empty array) and keySkills (that submission's skills, split at the
   commas) to localStorage. *)
C2_StoredBeforeNavigate ==
  [][(route # "/resumes" /\ route' = "/resumes")
     => /\ \E i \in 1..Len(requests) :
             /\ requests' = RemoveAt(requests, i)
             /\ lastOk'.skills = requests[i].closure.requiredSkills
        /\ lastOk'.body.t = "obj"
        /\ localStorage'.resumeResults =
             Stringify(IF lastOk'.body.data.t = "absent"
                       THEN JArr(<<>>)
                       ELSE IF lastOk'.body.data.result.t = "absent"
                            THEN JArr(<<>>)
                            ELSE lastOk'.body.data.result)
        /\ localStorage'.keySkills = Stringify(Split(lastOk'.skills))]_vars

C2_Witness ==
  /\ route = "/resumes"
  /\ lastOk.skills = SkillsAB
  /\ localStorage.keySkills = Stringify(<<(<<"a">>), (<<"b">>)>>)
  /\ localStorage.resumeResults =
       Stringify(JObj(7, "run", JArr(<<ItemBare, ItemFull>>)))

(* C3: the step in which a submission fails (the fetch rejects, the body is
   not JSON, or the status is not OK) leaves localStorage, the route and the
   form state as they are and shows exactly one 'Submission Error' toast. *)
C3_FailureOnlyToasts ==
  [][(Len(requests') = Len(requests) - 1)
     => LET OnlyToast == /\ localStorage' = localStorage
                         /\ route' = route
                         /\ formData' = formData
                         /\ toasts' = Append(toasts, SubmissionErrorToast)
        IN \/ OnlyToast
           \/ \A i \in 1..Len(requests), resp \in Responses :
                (/\ resp.kind \in {"rejected", "notjson"} \/ ~resp.ok
                 /\ Complete(i, resp))
                => OnlyToast]_vars

C3_Witness ==
  /\ toasts = <<SubmissionErrorToast>>
  /\ requests = <<>>
  /\ route = "/"
  /\ localStorage.resumeResults = Null
  /\ ~MissingInformation(formData) /\ ~MissingResume(formData)

(* C4: when the results view loads after a successful submission whose
   response carried an array of N candidates in data.result, it holds exactly
   N candidates, the i-th mapped from the i-th element. *)
C4_ViewHoldsStoredArray ==
  [][(/\ viewPhase = "constructed" /\ viewPhase' = "loaded"
      /\ lastOk # NoneYet
      /\ lastOk.body.data.t = "obj"
      /\ lastOk.body.data.result.t = "arr")
     => /\ Len(resumes') = Len(lastOk.body.data.result.items)
        /\ \A k \in 1..Len(resumes') :
             /\ resumes'[k].candidateId = k
             /\ resumes'[k].Rank =
                  Or(lastOk.body.data.result.items[k].score, JNum(0))]_vars

(* C7: the job_description of every request sent is non-empty and trimmed: it
   is the stripped text of formData.jobDescription, or 'No description' when
   stripping leaves nothing. *)
C7_JobDescriptionStripped ==
  [][(Len(requests') = Len(requests) + 1)
     => LET sent == requests'[Len(requests')].payload.job_description
            text == stripHtml(formData.jobDescription)
        IN /\ sent # <<>>
           /\ sent[1] # " " /\ sent[Len(sent)] # " "
           /\ sent = IF text = <<>> THEN NoDescription ELSE text]_vars

C7_Witness ==
  /\ Len(requests) = 2
  /\ requests[1].payload.job_description = NoDescription
  /\ requests[2].payload.job_description = <<"a", " ", "b">>

(* C8: after the pre-fill from the URL, jobType is the empty string or one of
   fulltime, parttime, contract, freelance, internship. *)
C8_JobTypeIsEnumOrEmpty ==
  formData.jobType \in {""} \cup JobTypes

(* C9: in every reachable state the cached resumeResults and keySkills come
   from one and the same submission, whatever the order in which concurrent
   submissions complete. *)
C9_CacheFromOneSubmission ==
  \/ localStorage = [resumeResults |-> Null, keySkills |-> Null]
  \/ /\ lastOk.body.t = "obj"
     /\ localStorage.resumeResults =
          Stringify(IF lastOk.body.data.t = "absent"
                    THEN JArr(<<>>)
                    ELSE IF lastOk.body.data.result.t = "absent"
                         THEN JArr(<<>>)
                         ELSE lastOk.body.data.result)
     /\ localStorage.keySkills = Stringify(Split(lastOk.skills))

C9_Witness ==
  /\ route = "/resumes" /\ appPhase = "unmounted"
  /\ Len(requests) = 1
  /\ requests[1].closure.requiredSkills # lastOk.skills
  /\ localStorage.keySkills = Stringify(Split(lastOk.skills))
  /\ localStorage.resumeResults # Null

C6_PresentFieldsKept ==
  (/\ viewPhase = "loaded"
   /\ localStorage.resumeResults # Null
   /\ HasResultArray(Parse(localStorage.resumeResults)))
  => LET items == Parse(localStorage.resumeResults).result.items
     IN /\ Len(resumes) = Len(items)
        /\ \A k \in 1..Len(items) :
             /\ resumes[k].name =
                  IF items[k].name.t = "absent"
                  THEN JStr(CandidateName(k)) ELSE items[k].name
             /\ resumes[k].Rank =
                  IF items[k].score.t = "absent" THEN JNum(0) ELSE items[k].score
             /\ resumes[k].justification =
                  IF items[k].justification.t = "absent"
                  THEN JStr(<<>>) ELSE items[k].justification
             /\ resumes[k].experience =
                  IF items[k].experience.t # "num"
                  THEN JNum(0) ELSE items[k].experience
             /\ resumes[k].email =
                  IF items[k].email.t = "absent" \/ items[k].email = JStr(Xxx)
                  THEN JStr(NoEmail) ELSE items[k].email
             /\ resumes[k].phone =
                  IF items[k].phone.t = "absent" \/ items[k].phone = JStr(Xxx)
                  THEN JStr(NoPhone) ELSE items[k].phone

(* C6, amended: a field that is missing or empty (the empty string, 0) takes
   its default; a field that is present and not empty is kept as it is, except
   that an experience that is no number becomes 0 and an 'xxx' email or phone
   becomes 'No email' or 'No phone'. *)
C6_MissingOrEmptyDefaulted ==
  (/\ viewPhase = "loaded"
   /\ localStorage.resumeResults # Null
   /\ HasResultArray(Parse(localStorage.resumeResults)))
  => LET items == Parse(localStorage.resumeResults).result.items
         Empty(v) == \/ v.t = "absent"
                     \/ v.t = "str" /\ v.s = <<>>
                     \/ v.t = "num" /\ v.n = 0
     IN /\ Len(resumes) = Len(items)
        /\ \A k \in 1..Len(items) :
             /\ resumes[k].name =
                  IF Empty(items[k].name)
                  THEN JStr(CandidateName(k)) ELSE items[k].name
             /\ resumes[k].Rank =
                  IF Empty(items[k].score) THEN JNum(0) ELSE items[k].score
             /\ resumes[k].justification =
                  IF Empty(items[k].justification)
                  THEN JStr(<<>>) ELSE items[k].justification
             /\ resumes[k].experience =
                  IF items[k].experience.t # "num"
                  THEN JNum(0) ELSE items[k].experience
             /\ resumes[k].email =
                  IF Empty(items[k].email) \/ items[k].email = JStr(Xxx)
                  THEN JStr(NoEmail) ELSE items[k].email
             /\ resumes[k].phone =
                  IF Empty(items[k].phone) \/ items[k].phone = JStr(Xxx)
                  THEN JStr(NoPhone) ELSE items[k].phone

C6_Witness ==
  /\ viewPhase = "loaded"
  /\ Len(resumes) = 2
  /\ localStorage.resumeResults # Null
  /\ HasResultArray(Parse(localStorage.resumeResults))
  /\ Parse(localStorage.resumeResults).result.items[2].name = JStr(<<>>)
  /\ Parse(localStorage.resumeResults).result.items[1].experience = JStr(<<"5">>)
  /\ resumes[2].name = JStr(CandidateName(2))
  /\ resumes[1].experience = JNum(0)

(* C10: in the initial filter state every loaded candidate is displayed. *)
C10_InitialFilterShowsAll ==
  (/\ viewPhase = "loaded"
   /\ searchQuery = <<>>
   /\ scoreRange = <<ScoreMin, ScoreMax>>
   /\ experienceRange = <<ExperienceMin, ExperienceMax>>
   /\ ~filterEmail /\ ~filterPhone)
  => Len(filteredResumes) = Len(resumes)

====
